---- MODULE Spec2Model ----
(***************************************************************************)
(* A model of pymongo-helper: the connection helpers, the auto-increment   *)
(* identifier generator and the index helpers of src/src/db_helper.py, the *)
(* record operations of src/src/pymongo_helper.py and the record           *)
(* normalizer of src/src/utils.py, running against a document store.       *)
(*                                                                         *)
(* Every exposed function is a sequence of steps of one caller (Procs);    *)
(* a step holds at most one request to the store, so that callers          *)
(* interleave exactly where separate processes can.  A caller's position   *)
(* is a stack of frames, one per function being executed.                  *)
(***************************************************************************)
EXTENDS Integers, Sequences, FiniteSets, TLC

\* ------------------------------------------------------------------ bounds
MaxOps == 2         \* exposed operations called in one behaviour (Spec)
MaxCalls == 3       \* calls of the generator in one behaviour (SpecGen)
MaxFaults == 1      \* store/connectivity failures injected in one behaviour
MaxInit == 1        \* records already in collection "a" when a behaviour starts
MaxTick == 1        \* advances of the clock in one behaviour
MaxDocs == 4        \* SpecFind: records in the collection that is queried
MaxSkip == 2        \* SpecFind: largest skip offset of a pager
MaxLimit == 2       \* SpecFind: largest limit (argument or pager)

Callers == {1, 2, 3}           \* the callers there are (all run in SpecGen)
Procs == {1}                   \* the callers that run in Spec and SpecFind
Names == {"a", "b"}            \* the collection names callers pass
IndexFields == {"title"}       \* the field names callers index

\* ------------------------------------------------------------------ values
\* Field values are tagged, as Python values carry their type:
\* <<"int", n>>, <<"datetime", t>>, <<"str", s>>, <<"uuid", n>>, <<"oid", n>>.
IntV(n) == <<"int", n>>
Datetime(t) == <<"datetime", t>>
Str(s) == <<"str", s>>
Uuid(n) == <<"uuid", n>>
Oid(n) == <<"oid", n>>

\* The clock counts half seconds: datetime.now() has sub-second resolution.
TicksPerSecond == 2

Min(a, b) == IF a < b THEN a ELSE b

\* ------------------------------------------------------------------ utils.py
\* strftime("%Y-%m-%dT%H:%M:%S"): the text of a timestamp, to the second.
strftime(v) == Str(v[2] \div TicksPerSecond)

\* datetime_formater: every datetime-valued field becomes its text.
CreatedAtOnlyMutant(iters) ==
    [key \in DOMAIN iters |->
        IF key = "created_at" /\ iters[key][1] = "datetime"
        THEN strftime(iters[key]) ELSE iters[key]]

datetime_formater(iters) ==
    [key \in DOMAIN iters |->
        IF iters[key][1] = "datetime" THEN strftime(iters[key]) ELSE iters[key]]

\* ------------------------------------------------------------------ pymongo_helper.py, module constants
\* A projection says which fields to include; "oid" is the store's own _id.
NativeIdKeptMutant == [id |-> TRUE]

PROJECTION == [oid |-> FALSE, id |-> TRUE]
CRITERIA == [field |-> "none", value |-> IntV(0)]
SORT == [field |-> "created_at", direction |-> -1]
keys_to_check == {"skip", "limit"}
NoPager == [supplied |-> FALSE, keys |-> {}, skip |-> 0, limit |-> 0]

\* ------------------------------------------------------------------ the store's queries
\* A criteria document is {} (field "none") or {field: value}.
Matches(doc, criteria) ==
    \/ criteria.field = "none"
    \/ /\ criteria.field \in DOMAIN doc
       /\ doc[criteria.field] = criteria.value

\* The documents of a collection that match, in natural (insertion) order.
Filter(docs, criteria) ==
    LET RECURSIVE F(_)
        F(i) == IF i > Len(docs) THEN <<>>
                ELSE IF Matches(docs[i], criteria) THEN <<docs[i]>> \o F(i + 1)
                ELSE F(i + 1)
    IN F(1)

\* doc a sorts before doc b under a one-key sort specification.
Before(a, b, sort) ==
    IF sort.direction = 1 THEN a[sort.field][2] < b[sort.field][2]
    ELSE a[sort.field][2] > b[sort.field][2]

\* The store's sort: by the key, documents with equal keys in natural order.
SortDocs(docs, sort) ==
    LET RECURSIVE Ins(_, _)
        Ins(d, s) == IF s = <<>> THEN <<d>>
                     ELSE IF ~Before(Head(s), d, sort) THEN <<d>> \o s
                     ELSE <<Head(s)>> \o Ins(d, Tail(s))
        RECURSIVE R(_)
        R(i) == IF i > Len(docs) THEN <<>> ELSE Ins(docs[i], R(i + 1))
    IN R(1)

\* A projection keeps the fields it includes, and the _id unless it excludes
\* it.
Included(f, projection) ==
    IF f = "oid" THEN "oid" \notin DOMAIN projection \/ projection.oid
    ELSE f \in DOMAIN projection /\ projection[f]

Project(doc, projection) ==
    [f \in {g \in DOMAIN doc : Included(g, projection)} |-> doc[f]]

ProjectAll(docs, projection) ==
    [i \in 1..Len(docs) |-> Project(docs[i], projection)]

\* ------------------------------------------------------------------ state
VARIABLES
    pymongo_version,  \* major version of the installed driver: 3 or 4
    incrementors,     \* the counter collection: a set of [key, tally] documents
    docs,             \* docs[c]: the documents of collection c, in natural order
    collections,      \* the names list_collection_names() returns
    indexes,          \* indexes[c]: the index names of collection c
    stack,            \* stack[p]: the frames of caller p, innermost last
    handles,          \* handles[p]: the clients the current call of p has made
    outcome,          \* outcome[p]: how the last exposed call of p ended
    now,              \* the clock, in ticks
    fresh,            \* tokens (uuid4, ObjectId) drawn so far
    calls_left,       \* exposed operations the callers may still call
    nfaults,          \* failures injected so far
    returned,         \* returned[c]: the identifiers minted for c, in return order,
                      \* each with the exposed function that was running
    created,          \* created[c]: the ids of the records persisted in c, in order
    concurrent,       \* two exposed calls have overlapped
    records           \* the record objects a caller of datetime_formater holds

store == <<incrementors, docs, collections, indexes>>
env == <<pymongo_version, now, fresh, calls_left, concurrent, records>>
vars == <<pymongo_version, incrementors, docs, collections, indexes, stack,
          handles, outcome, now, fresh, calls_left, nfaults, returned, created,
          concurrent, records>>

\* ------------------------------------------------------------------ Python values and exceptions
None == <<"none", 0>>
Bool(b) == <<"bool", b>>
List(s) == <<"list", s>>

\* An exception: its class, its text, and (cause) the text of the exception
\* it wraps, which an f-string put into its own.
Exc(cls, msg) == [cls |-> cls, msg |-> msg, cause |-> ""]
NoExc == Exc("", "")

\* A frame: the function, its position, its `client` local (an index into the
\* caller's handles, 0 while unbound), its arguments and the value its last
\* callee returned (local: the local variable a function keeps across a call).
Frame(fn, pc, args) ==
    [fn |-> fn, pc |-> pc, client |-> 0, args |-> args, local |-> None, ret |-> None]

Top(p) == stack[p][Len(stack[p])]
At(p, fn, pc) == stack[p] # <<>> /\ Top(p).fn = fn /\ Top(p).pc = pc
Below(p) == SubSeq(stack[p], 1, Len(stack[p]) - 1)

\* ------------------------------------------------------------------ db_helper.py: connections
\* A client: connected or not, how many times close() was applied to it, the
\* requests sent through it, and whether one was sent after a close().
NewClient == [open |-> TRUE, closes |-> 0, requests |-> 0, after_close |-> FALSE]

\* close_mongodb_connection: close() unless the reference is absent.
close_mongodb_connection(hs, client) ==
    IF client = 0 THEN hs
    ELSE [hs EXCEPT ![client] = [@ EXCEPT !.open = FALSE, !.closes = @ + 1]]

\* A request through a client.  A closed MongoClient reconnects by itself
\* under pymongo 3 and refuses (InvalidOperation) under pymongo 4.
Usable(hs, client) == hs[client].open \/ pymongo_version = 3

Request(hs, client) ==
    [hs EXCEPT ![client] =
        [open |-> TRUE, closes |-> @.closes, requests |-> @.requests + 1,
         after_close |-> @.after_close \/ ~@.open]]

Refused(hs, client) ==
    [hs EXCEPT ![client] = [@ EXCEPT !.after_close = TRUE]]

\* What a failing store call raises, and what connect_to_mongodb raises.
Failures == {"ConnectionFailure", "OperationFailure"}
StoreChoices == {"ok"} \cup (IF nfaults < MaxFaults THEN Failures ELSE {})
ConnectChoices == {"ok"} \cup (IF nfaults < MaxFaults THEN {"config", "connect"} ELSE {})
Injected(choice) == nfaults' = IF choice = "ok" THEN nfaults ELSE nfaults + 1

\* connect_to_mongodb's two failures, both ValueError.
ConnectError(choice) ==
    IF choice = "config" THEN Exc("ValueError", "connection string not found")
    ELSE Exc("ValueError", "Failed to connect")

\* ------------------------------------------------------------------ exceptions through the frames
\* The except clauses of each function.  finds has none; the index functions
\* catch Exception; the others catch the driver's connection and operation
\* failures (DuplicateKeyError is an OperationFailure).
DriverFailures == {"ConnectionFailure", "AutoReconnect", "OperationFailure", "DuplicateKeyError"}

Catches(fn, cls) ==
    IF fn = "finds" THEN FALSE
    ELSE IF fn \in {"create_index_on_collection", "check_index_on_collection"} THEN TRUE
    ELSE cls \in DriverFailures

\* What each except clause raises.  The functions of pymongo_helper.py and
\* next_record_identifier_value format the caught exception into the text;
\* the other functions of db_helper.py raise the literal 'Database operation
\* faillure: {e}', which is no f-string.
Handler(fn, e) ==
    IF fn = "next_record_identifier_value" /\ e.cls \in {"ConnectionFailure", "AutoReconnect"}
    THEN [Exc("ValueError", "Database connection failure") EXCEPT !.cause = e.msg]
    ELSE IF fn \in {"collection_exist", "add_collection", "create_index_on_collection",
                    "check_index_on_collection"}
    THEN Exc("ValueError", "Database operation faillure: {e}")
    ELSE [Exc("ValueError", "Database operation failure") EXCEPT !.cause = e.msg]

\* An exception raised in the innermost frame leaves every frame: each
\* function's except clause rewraps it or lets it pass, and
\* next_record_identifier_value's finally closes its client, which raises
\* UnboundLocalError if connect_to_mongodb never bound it.
RECURSIVE Unwind(_, _, _)
Unwind(frames, e, hs) ==
    IF frames = <<>> THEN [exc |-> e, handles |-> hs]
    ELSE LET f == frames[Len(frames)]
             gen == f.fn = "next_record_identifier_value"
             e1 == IF Catches(f.fn, e.cls) THEN Handler(f.fn, e) ELSE e
             e2 == IF gen /\ f.client = 0
                   THEN Exc("UnboundLocalError", "client") ELSE e1
             hs2 == IF gen THEN close_mongodb_connection(hs, f.client) ELSE hs
         IN Unwind(SubSeq(frames, 1, Len(frames) - 1), e2, hs2)

\* ------------------------------------------------------------------ how a step ends
NoOutcome == [fn |-> "", args |-> None, kind |-> "none", value |-> None, exc |-> NoExc]

\* The exposed function caller p is in.
Outer(p) == stack[p][1].fn

\* The caller goes on in its frames.
Continue(p, frames, hs) ==
    /\ stack' = [stack EXCEPT ![p] = frames]
    /\ handles' = [handles EXCEPT ![p] = hs]
    /\ UNCHANGED outcome

\* The innermost function returns v to its caller, or to the user.
Return(p, v, hs) ==
    LET s == stack[p]
        n == Len(s)
    IN /\ stack' = [stack EXCEPT ![p] =
                       IF n = 1 THEN <<>>
                       ELSE SubSeq(s, 1, n - 2) \o <<[s[n - 1] EXCEPT !.ret = v]>>]
       /\ handles' = [handles EXCEPT ![p] = hs]
       /\ outcome' = IF n = 1
                     THEN [outcome EXCEPT ![p] =
                              [fn |-> s[1].fn, args |-> s[1].args, kind |-> "return",
                               value |-> v, exc |-> NoExc]]
                     ELSE outcome

\* The innermost function raises e, which reaches the user as Unwind says.
Raise(p, e, hs) ==
    LET s == stack[p]
        r == Unwind(s, e, hs)
    IN /\ stack' = [stack EXCEPT ![p] = <<>>]
       /\ handles' = [handles EXCEPT ![p] = r.handles]
       /\ outcome' = [outcome EXCEPT ![p] =
                         [fn |-> s[1].fn, args |-> s[1].args, kind |-> "raise",
                          value |-> None, exc |-> r.exc]]

\* connect_to_mongodb, as the first statement of function fn: the client is
\* bound and the function goes on at pc, or the ValueError leaves it.
Connect(p, pc) ==
    \E choice \in ConnectChoices :
        /\ Injected(choice)
        /\ IF choice = "ok"
           THEN Continue(p, Below(p) \o <<[Top(p) EXCEPT !.pc = pc,
                                                  !.client = Len(handles[p]) + 1]>>,
                         Append(handles[p], NewClient))
           ELSE Raise(p, ConnectError(choice), handles[p])

\* An exposed function is called by the user: the caller's previous outcome
\* and clients are forgotten.
Call(p, fn, pc, args) ==
    /\ stack[p] = <<>>
    /\ calls_left > 0
    /\ calls_left' = calls_left - 1
    /\ stack' = [stack EXCEPT ![p] = <<Frame(fn, pc, args)>>]
    /\ handles' = [handles EXCEPT ![p] = <<>>]
    /\ outcome' = [outcome EXCEPT ![p] = NoOutcome]
    /\ concurrent' = (concurrent \/ \E q \in Callers : q # p /\ stack[q] # <<>>)
    /\ UNCHANGED <<pymongo_version, store, now, fresh, nfaults, returned, created, records>>

\* ------------------------------------------------------------------ db_helper.py: next_record_identifier_value
incrementor_collection == "incrementors"

\* find_one_and_update({'_id': collection}, {'$inc': {'tally': 1}},
\* return_document=True), without upsert: the store atomically increments the
\* matching document and returns it as it is afterwards, or returns nothing.
ReturnBeforeMutant(counters, collection) ==
    IF \E d \in counters : d.key = collection
    THEN LET d == CHOOSE d \in counters : d.key = collection
         IN [found |-> TRUE, tally |-> d.tally,
             counters |-> (counters \ {d}) \cup {[key |-> collection, tally |-> d.tally + 1]}]
    ELSE [found |-> FALSE, tally |-> 0, counters |-> counters]

NotStoredMutant(counters, collection) ==
    IF \E d \in counters : d.key = collection
    THEN LET d == CHOOSE d \in counters : d.key = collection
         IN [found |-> TRUE, tally |-> d.tally + 1, counters |-> counters]
    ELSE [found |-> FALSE, tally |-> 0, counters |-> counters]

DecrementMutant(counters, collection) ==
    IF \E d \in counters : d.key = collection
    THEN LET d == CHOOSE d \in counters : d.key = collection
         IN [found |-> TRUE, tally |-> d.tally - 1,
             counters |-> (counters \ {d}) \cup {[key |-> collection, tally |-> d.tally - 1]}]
    ELSE [found |-> FALSE, tally |-> 0, counters |-> counters]

find_one_and_update(counters, collection) ==
    IF \E d \in counters : d.key = collection
    THEN LET d == CHOOSE d \in counters : d.key = collection
         IN [found |-> TRUE, tally |-> d.tally + 1,
             counters |-> (counters \ {d}) \cup {[key |-> collection, tally |-> d.tally + 1]}]
    ELSE [found |-> FALSE, tally |-> 0, counters |-> counters]

\* insert_one({'_id': collection, 'tally': 1}) into the counter collection:
\* the store refuses a second document with the same _id, and the text of
\* its DuplicateKeyError quotes the duplicate key, here the collection name.
counter_insert_one(counters, collection) ==
    IF \E d \in counters : d.key = collection
    THEN [ok |-> FALSE, counters |-> counters]
    ELSE [ok |-> TRUE, counters |-> counters \cup {[key |-> collection, tally |-> 1]}]

Gen == "next_record_identifier_value"
Minted(value, fn) == [value |-> value, by |-> fn]
GenFrame(collection) == Frame(Gen, "connect", [collection |-> collection])

\* line 64
GenConnect(p) ==
    /\ At(p, Gen, "connect")
    /\ Connect(p, "find_one_and_update")
    /\ UNCHANGED <<env, store, returned, created>>

\* lines 68-78 and the finally of line 89: the increment; when a counter was
\* there, close, return its tally, and close again in the finally.
GenFindOneAndUpdate(p) ==
    /\ At(p, Gen, "find_one_and_update")
    /\ \E choice \in StoreChoices :
        LET f == Top(p)
            c == f.args.collection
            hs == Request(handles[p], f.client)
            r == find_one_and_update(incrementors, c)
        IN /\ Injected(choice)
           /\ IF choice # "ok"
              THEN /\ Raise(p, Exc(choice, ""), hs)
                   /\ UNCHANGED <<incrementors, returned>>
              ELSE /\ incrementors' = r.counters
                   /\ IF r.found
                      THEN /\ Return(p, IntV(r.tally),
                                     close_mongodb_connection(
                                         close_mongodb_connection(hs, f.client), f.client))
                           /\ returned' = [returned EXCEPT ![c] = Append(@, Minted(r.tally, Outer(p)))]
                      ELSE /\ Continue(p, Below(p) \o <<[f EXCEPT !.pc = "insert_one"]>>, hs)
                           /\ UNCHANGED returned
    /\ UNCHANGED <<env, docs, collections, indexes, created>>

\* lines 80-83 and the finally of line 89: first use of the counter.
GenInsertOne(p) ==
    /\ At(p, Gen, "insert_one")
    /\ \E choice \in StoreChoices :
        LET f == Top(p)
            c == f.args.collection
            hs == Request(handles[p], f.client)
            r == counter_insert_one(incrementors, c)
        IN /\ Injected(choice)
           /\ IF choice # "ok"
              THEN /\ Raise(p, Exc(choice, ""), hs)
                   /\ UNCHANGED <<incrementors, collections, returned>>
              ELSE IF ~r.ok
              THEN /\ Raise(p, Exc("DuplicateKeyError", c), hs)
                   /\ UNCHANGED <<incrementors, collections, returned>>
              ELSE /\ incrementors' = r.counters
                   /\ collections' = collections \cup {incrementor_collection}
                   /\ Return(p, IntV(1),
                             close_mongodb_connection(
                                 close_mongodb_connection(hs, f.client), f.client))
                   /\ returned' = [returned EXCEPT ![c] = Append(@, Minted(1, Outer(p)))]
    /\ UNCHANGED <<env, docs, indexes, created>>

\* ------------------------------------------------------------------ db_helper.py: collection_exist, add_collection
Exist == "collection_exist"

\* lines 121 and 201: `if not in_collection_list and create_it`,
\* `if not have_index and create_it`.
CreateWheneverAskedMutant(present, create_it) == create_it

ShouldCreate(present, create_it) == ~present /\ create_it

ExistConnect(p) ==
    /\ At(p, Exist, "connect")
    /\ Connect(p, "list_collection_names")
    /\ UNCHANGED <<env, store, returned, created>>

\* lines 120-124: the presence check; add_collection when absent and asked
\* to create (add_collection starts by calling the generator, line 146).
ExistList(p) ==
    /\ At(p, Exist, "list_collection_names")
    /\ \E choice \in StoreChoices :
        LET f == Top(p)
            c == f.args.collection
            hs == Request(handles[p], f.client)
            in_collection_list == c \in collections
        IN /\ Injected(choice)
           /\ IF choice # "ok"
              THEN Raise(p, Exc(choice, ""), hs)
              ELSE IF ShouldCreate(in_collection_list, f.args.create_it)
              THEN Continue(p, Below(p) \o
                        <<[f EXCEPT !.pc = "close", !.local = Bool(in_collection_list)],
                          Frame("add_collection", "return", [collection |-> c]),
                          GenFrame(c)>>, hs)
              ELSE Return(p, Bool(in_collection_list),
                          close_mongodb_connection(hs, f.client))
    /\ UNCHANGED <<env, store, returned, created>>

\* line 147: bool(tally).
AddCollectionReturn(p) ==
    /\ At(p, "add_collection", "return")
    /\ Return(p, Bool(Top(p).ret[2] # 0), handles[p])
    /\ UNCHANGED <<env, store, nfaults, returned, created>>

\* lines 123-124, after add_collection.
ExistClose(p) ==
    /\ At(p, Exist, "close")
    /\ Return(p, Top(p).local, close_mongodb_connection(handles[p], Top(p).client))
    /\ UNCHANGED <<env, store, nfaults, returned, created>>

\* ------------------------------------------------------------------ db_helper.py: indexes
CreateIndex == "create_index_on_collection"
CheckIndex == "check_index_on_collection"

\* f'{collection}_{index_name}'
index_key(collection, index_name) == <<collection, "_", index_name>>

\* line 169: not indexes.get(index_key, None), on what index_information()
\* returned.
AlwaysAbsentMutant(information, key) == TRUE

IndexAbsent(information, key) == key \notin information

CreateIndexConnect(p) ==
    /\ At(p, CreateIndex, "connect")
    /\ Connect(p, "index_information")
    /\ UNCHANGED <<env, store, returned, created>>

\* lines 167-172 when the index is there.
CreateIndexInfo(p) ==
    /\ At(p, CreateIndex, "index_information")
    /\ \E choice \in StoreChoices :
        LET f == Top(p)
            c == f.args.collection
            hs == Request(handles[p], f.client)
        IN /\ Injected(choice)
           /\ IF choice # "ok"
              THEN Raise(p, Exc(choice, ""), hs)
              ELSE IF IndexAbsent(indexes[c], index_key(c, f.args.index_name))
              THEN Continue(p, Below(p) \o <<[f EXCEPT !.pc = "create_index"]>>, hs)
              ELSE Return(p, Bool(TRUE), close_mongodb_connection(hs, f.client))
    /\ UNCHANGED <<env, store, returned, created>>

\* lines 170-172: create_index makes the collection too.
CreateIndexCreate(p) ==
    /\ At(p, CreateIndex, "create_index")
    /\ \E choice \in StoreChoices :
        LET f == Top(p)
            c == f.args.collection
            hs == Request(handles[p], f.client)
        IN /\ Injected(choice)
           /\ IF choice # "ok"
              THEN /\ Raise(p, Exc(choice, ""), hs)
                   /\ UNCHANGED <<indexes, collections>>
              ELSE /\ indexes' = [indexes EXCEPT ![c] = @ \cup {index_key(c, f.args.index_name)}]
                   /\ collections' = collections \cup {c}
                   /\ Return(p, Bool(TRUE), close_mongodb_connection(hs, f.client))
    /\ UNCHANGED <<env, incrementors, docs, returned, created>>

CheckIndexConnect(p) ==
    /\ At(p, CheckIndex, "connect")
    /\ Connect(p, "index_information")
    /\ UNCHANGED <<env, store, returned, created>>

\* lines 198-204
CheckIndexInfo(p) ==
    /\ At(p, CheckIndex, "index_information")
    /\ \E choice \in StoreChoices :
        LET f == Top(p)
            c == f.args.collection
            hs == Request(handles[p], f.client)
            have_index == index_key(c, f.args.index_name) \in indexes[c]
        IN /\ Injected(choice)
           /\ IF choice # "ok"
              THEN Raise(p, Exc(choice, ""), hs)
              ELSE IF ShouldCreate(have_index, f.args.create_it)
              THEN Continue(p, Below(p) \o
                        <<[f EXCEPT !.pc = "close", !.local = Bool(have_index)],
                          Frame(CreateIndex, "connect",
                                [collection |-> c, index_name |-> f.args.index_name])>>, hs)
              ELSE Return(p, Bool(have_index), close_mongodb_connection(hs, f.client))
    /\ UNCHANGED <<env, store, returned, created>>

\* lines 203-204, after create_index_on_collection.
CheckIndexClose(p) ==
    /\ At(p, CheckIndex, "close")
    /\ Return(p, Top(p).local, close_mongodb_connection(handles[p], Top(p).client))
    /\ UNCHANGED <<env, store, nfaults, returned, created>>

\* ------------------------------------------------------------------ pymongo_helper.py: find_one
Record(doc) == <<"record", doc>>

\* Collection.find_one(criteria, projection): the first matching document in
\* natural order, projected, or None.
FindOneLastMutant(documents, criteria, projection) ==
    LET found == Filter(documents, criteria)
    IN IF found = <<>> THEN None ELSE Record(Project(found[Len(found)], projection))

find_one(documents, criteria, projection) ==
    LET found == Filter(documents, criteria)
    IN IF found = <<>> THEN None ELSE Record(Project(found[1], projection))

FindOneConnect(p) ==
    /\ At(p, "find_one", "connect")
    /\ Connect(p, "find_one")
    /\ UNCHANGED <<env, store, returned, created>>

\* lines 38-40: the first matching document, projected; then close, and the
\* document normalized unless there is none.
FindOneQuery(p) ==
    /\ At(p, "find_one", "find_one")
    /\ \E choice \in StoreChoices :
        LET f == Top(p)
            hs == Request(handles[p], f.client)
            data == find_one(docs[f.args.collection], f.args.criteria, f.args.projection)
        IN /\ Injected(choice)
           /\ IF choice # "ok"
              THEN Raise(p, Exc(choice, ""), hs)
              ELSE Return(p, IF data[1] = "none" THEN data
                             ELSE Record(datetime_formater(data[2])),
                          close_mongodb_connection(hs, f.client))
    /\ UNCHANGED <<env, store, returned, created>>

\* ------------------------------------------------------------------ pymongo_helper.py: finds
\* `if pager`: a dict is true unless it is empty (or absent).
Truthy(pager) == pager.supplied /\ pager.keys # {}

\* A cursor holds the query until it is iterated.  skip(), limit() and sort()
\* set options on it, in any order; the store sorts, then skips, then limits,
\* and a limit of 0 is no limit.
SkipLimitFirstMutant(documents, cursor) ==
    LET matching == Filter(documents, cursor.criteria)
        rest == SubSeq(matching, cursor.skip + 1, Len(matching))
        page == IF cursor.limit = 0 THEN rest
                ELSE SubSeq(rest, 1, Min(cursor.limit, Len(rest)))
    IN ProjectAll(SortDocs(page, cursor.sort), cursor.projection)

LimitIgnoredMutant(documents, cursor) ==
    LET matching == Filter(documents, cursor.criteria)
        sorted == SortDocs(matching, cursor.sort)
        rest == SubSeq(sorted, cursor.skip + 1, Len(sorted))
    IN ProjectAll(rest, cursor.projection)

Execute(documents, cursor) ==
    LET matching == Filter(documents, cursor.criteria)
        sorted == SortDocs(matching, cursor.sort)
        rest == SubSeq(sorted, cursor.skip + 1, Len(sorted))
        page == IF cursor.limit = 0 THEN rest
                ELSE SubSeq(rest, 1, Min(cursor.limit, Len(rest)))
    IN ProjectAll(page, cursor.projection)

\* lines 89 and 91: the cursor each branch builds.
PagerCursor(args) ==
    [criteria |-> args.criteria, projection |-> args.projection,
     skip |-> args.pager.skip, limit |-> args.pager.limit, sort |-> args.sort]

LimitCursor(args) ==
    [criteria |-> args.criteria, projection |-> args.projection,
     skip |-> 0, limit |-> args.limit, sort |-> args.sort]

\* finds(database, collection), as the other functions call it.
FindsFirstOnlyMutant(collection) ==
    [collection |-> collection, projection |-> PROJECTION, criteria |-> CRITERIA,
     sort |-> SORT, limit |-> 1, pager |-> NoPager]

FindsDefaults(collection) ==
    [collection |-> collection, projection |-> PROJECTION, criteria |-> CRITERIA,
     sort |-> SORT, limit |-> 0, pager |-> NoPager]

FindsFrame(collection) == Frame("finds", "connect", FindsDefaults(collection))

\* line 83 (outside any try)
FindsConnect(p) ==
    /\ At(p, "finds", "connect")
    /\ Connect(p, "cursor")
    /\ UNCHANGED <<env, store, returned, created>>

\* lines 84-92: the pager check, the cursor, and close before the cursor is
\* iterated.
FindsCursor(p) ==
    /\ At(p, "finds", "cursor")
    /\ LET f == Top(p)
           pager == f.args.pager
       IN IF Truthy(pager) /\ ~(keys_to_check \subseteq pager.keys)
          THEN Raise(p, Exc("ValueError", "Pager should have skip and limit key vlaue"), handles[p])
          ELSE Continue(p, Below(p) \o
                    <<[f EXCEPT !.pc = "iterate",
                                !.local = <<"cursor", IF Truthy(pager) THEN PagerCursor(f.args)
                                                      ELSE LimitCursor(f.args)>>]>>,
                    close_mongodb_connection(handles[p], f.client))
    /\ UNCHANGED <<env, store, nfaults, returned, created>>

\* lines 93-94: iterating the cursor sends the query, through the client
\* that line 92 closed.
FindsIterate(p) ==
    /\ At(p, "finds", "iterate")
    /\ LET f == Top(p)
       IN IF ~Usable(handles[p], f.client)
          THEN /\ Raise(p, Exc("InvalidOperation", "Cannot use MongoClient after close"),
                        Refused(handles[p], f.client))
               /\ UNCHANGED nfaults
          ELSE \E choice \in StoreChoices :
                LET hs == Request(handles[p], f.client)
                    found == Execute(docs[f.args.collection], f.local[2])
                    datas == [i \in 1..Len(found) |-> datetime_formater(found[i])]
                IN /\ Injected(choice)
                   /\ IF choice # "ok"
                      THEN Raise(p, Exc(choice, ""), hs)
                      ELSE Return(p, List(datas), hs)
    /\ UNCHANGED <<env, store, returned, created>>

\* ------------------------------------------------------------------ pymongo_helper.py: insert_one
\* get_reference_key(): MONGOPH_REFERENCE_KEY is left at its default.
reference_key == "record_id"

\* datetime.datetime.now(): the clock may have advanced since it was last read.
ClockReads == {now} \cup (IF now < MaxInit + MaxTick THEN {now + 1} ELSE {})

InsertOneConnect(p) ==
    /\ At(p, "insert_one", "connect")
    /\ Connect(p, "stamp")
    /\ UNCHANGED <<env, store, returned, created>>

\* lines 123-126: the two timestamps, then the call of the generator.
InsertOneStamp(p) ==
    /\ At(p, "insert_one", "stamp")
    /\ \E date \in ClockReads :
        /\ now' = date
        /\ Continue(p, Below(p) \o
               <<[Top(p) EXCEPT !.pc = "insert_one",
                                !.local = Record([created_at |-> Datetime(date),
                                                  updated_at |-> Datetime(date)])],
                 GenFrame(Top(p).args.collection)>>, handles[p])
    /\ UNCHANGED <<pymongo_version, fresh, calls_left, concurrent, store, nfaults,
                   returned, created, records>>

\* The document insert_one stores: the stamped data, the id, the reference
\* key, and the _id the driver adds.
StampedTokenIdMutant(data, id, token) ==
    [oid |-> Oid(token), id |-> IntV(token), record_id |-> Uuid(token),
     created_at |-> data.created_at, updated_at |-> data.updated_at]

Stamped(data, id, token) ==
    [oid |-> Oid(token), id |-> id, record_id |-> Uuid(token),
     created_at |-> data.created_at, updated_at |-> data.updated_at]

\* lines 134-135: what insert_one's except clause does to the counters when
\* the insert failed after an identifier was minted: nothing.
RollbackMutant(counters, collection) ==
    {IF d.key = collection THEN [d EXCEPT !.tally = @ - 1] ELSE d : d \in counters}

InsertOneExcept(counters, collection) == counters

\* lines 126-135: id and reference key, the insert, close, and the listing
\* or the reference key.
InsertOnePersist(p) ==
    /\ At(p, "insert_one", "insert_one")
    /\ \E choice \in StoreChoices :
        LET f == Top(p)
            c == f.args.collection
            hs == Request(handles[p], f.client)
            data == Stamped(f.local[2], f.ret, fresh + 1)
        IN /\ Injected(choice)
           /\ fresh' = fresh + 1
           /\ IF choice # "ok"
              THEN /\ Raise(p, Exc(choice, ""), hs)
                   /\ incrementors' = InsertOneExcept(incrementors, c)
                   /\ UNCHANGED <<docs, collections, created>>
              ELSE /\ docs' = [docs EXCEPT ![c] = Append(@, data)]
                   /\ UNCHANGED incrementors
                   /\ collections' = collections \cup {c}
                   /\ created' = [created EXCEPT ![c] = Append(@, data.id[2])]
                   /\ IF f.args.datalist
                      THEN Continue(p, Below(p) \o <<[f EXCEPT !.pc = "return"], FindsFrame(c)>>,
                                    close_mongodb_connection(hs, f.client))
                      ELSE Return(p, data[reference_key],
                                  close_mongodb_connection(hs, f.client))
    /\ UNCHANGED <<pymongo_version, now, calls_left, concurrent, indexes, returned,
                   records>>

\* line 131: return finds(database, collection)
InsertOneReturn(p) ==
    /\ At(p, "insert_one", "return")
    /\ Return(p, Top(p).ret, handles[p])
    /\ UNCHANGED <<env, store, nfaults, returned, created>>

\* ------------------------------------------------------------------ pymongo_helper.py: aggregate, count
AggregateConnect(p) ==
    /\ At(p, "aggregate", "connect")
    /\ Connect(p, "aggregate")
    /\ UNCHANGED <<env, store, returned, created>>

\* lines 161-165: datetime(data) calls the datetime module, a TypeError for
\* the first document the pipeline puts out.  The pipeline is one $match stage.
AggregateRun(p) ==
    /\ At(p, "aggregate", "aggregate")
    /\ \E choice \in StoreChoices :
        LET f == Top(p)
            hs == Request(handles[p], f.client)
            output == Filter(docs[f.args.collection], f.args.pipeline)
        IN /\ Injected(choice)
           /\ IF choice # "ok"
              THEN Raise(p, Exc(choice, ""), hs)
              ELSE IF output # <<>>
              THEN Raise(p, Exc("TypeError", "'module' object is not callable"), hs)
              ELSE Return(p, List(<<>>), close_mongodb_connection(hs, f.client))
    /\ UNCHANGED <<env, store, returned, created>>

CountConnect(p) ==
    /\ At(p, "count", "connect")
    /\ Connect(p, "count")
    /\ UNCHANGED <<env, store, returned, created>>

\* lines 193-195: Collection.count exists under pymongo 3 only; under
\* pymongo 4 the name is a sub-collection, and calling it is a TypeError.
\* The close of line 194 is commented out.
CountQuery(p) ==
    /\ At(p, "count", "count")
    /\ IF pymongo_version = 4
       THEN /\ Raise(p, Exc("TypeError", "'Collection' object is not callable"), handles[p])
            /\ UNCHANGED nfaults
       ELSE \E choice \in StoreChoices :
             LET f == Top(p)
                 hs == Request(handles[p], f.client)
             IN /\ Injected(choice)
                /\ IF choice # "ok"
                   THEN Raise(p, Exc(choice, ""), hs)
                   ELSE Return(p, IntV(Len(Filter(docs[f.args.collection], f.args.criteria))), hs)
    /\ UNCHANGED <<env, store, returned, created>>

\* ------------------------------------------------------------------ pymongo_helper.py: insert_many
InsertManyConnect(p) ==
    /\ At(p, "insert_many", "connect")
    /\ Connect(p, "loop")
    /\ UNCHANGED <<env, store, returned, created>>

\* lines 230-235 for the first record: the timestamps and the call of the
\* generator (the uuid4 of line 232 is never stored).  With no record, line
\* 239: the driver refuses an empty list with a TypeError.
InsertManyLoop(p) ==
    /\ At(p, "insert_many", "loop")
    /\ IF Top(p).args.datas = <<>>
       THEN /\ Raise(p, Exc("TypeError", "documents must be a non-empty list"), handles[p])
            /\ UNCHANGED now
       ELSE \E date \in ClockReads :
             /\ now' = date
             /\ Continue(p, Below(p) \o
                    <<[Top(p) EXCEPT !.pc = "append",
                                     !.local = Record([created_at |-> Datetime(date),
                                                       updated_at |-> Datetime(date)])],
                      GenFrame(Top(p).args.collection)>>, handles[p])
    /\ UNCHANGED <<pymongo_version, fresh, calls_left, concurrent, store, nfaults,
                   returned, created, records>>

\* lines 235-237: datas_.append[data] subscripts a method, a TypeError.
InsertManyAppend(p) ==
    /\ At(p, "insert_many", "append")
    /\ Raise(p, Exc("TypeError", "'builtin_function_or_method' object is not subscriptable"),
             handles[p])
    /\ UNCHANGED <<env, store, nfaults, returned, created>>

\* ------------------------------------------------------------------ pymongo_helper.py: delete_one, delete_many
\* The documents left when the first match (delete_one) or every match
\* (delete_many) is removed.
Remove(documents, criteria, many) ==
    LET RECURSIVE R(_, _)
        R(i, done) ==
            IF i > Len(documents) THEN <<>>
            ELSE IF Matches(documents[i], criteria) /\ ~done
            THEN R(i + 1, ~many)
            ELSE <<documents[i]>> \o R(i + 1, done)
    IN R(1, FALSE)

DeleteOneConnect(p) ==
    /\ At(p, "delete_one", "connect")
    /\ Connect(p, "delete_one")
    /\ UNCHANGED <<env, store, returned, created>>

\* lines 274-278
DeleteOneDelete(p) ==
    /\ At(p, "delete_one", "delete_one")
    /\ \E choice \in StoreChoices :
        LET f == Top(p)
            c == f.args.collection
            hs == Request(handles[p], f.client)
        IN /\ Injected(choice)
           /\ IF choice # "ok"
              THEN /\ Raise(p, Exc(choice, ""), hs)
                   /\ UNCHANGED docs
              ELSE /\ docs' = [docs EXCEPT ![c] = Remove(@, f.args.criteria, FALSE)]
                   /\ IF f.args.datalist
                      THEN Continue(p, Below(p) \o <<[f EXCEPT !.pc = "return"], FindsFrame(c)>>,
                                    close_mongodb_connection(hs, f.client))
                      ELSE Return(p, Bool(TRUE), close_mongodb_connection(hs, f.client))
    /\ UNCHANGED <<env, incrementors, collections, indexes, returned, created>>

\* line 277: return finds(database, collection)
DeleteOneReturn(p) ==
    /\ At(p, "delete_one", "return")
    /\ Return(p, Top(p).ret, handles[p])
    /\ UNCHANGED <<env, store, nfaults, returned, created>>

DeleteManyConnect(p) ==
    /\ At(p, "delete_many", "connect")
    /\ Connect(p, "delete_many")
    /\ UNCHANGED <<env, store, returned, created>>

\* lines 308-313: the else branch evaluates True and returns nothing.
DeleteManyDelete(p) ==
    /\ At(p, "delete_many", "delete_many")
    /\ \E choice \in StoreChoices :
        LET f == Top(p)
            c == f.args.collection
            hs == Request(handles[p], f.client)
        IN /\ Injected(choice)
           /\ IF choice # "ok"
              THEN /\ Raise(p, Exc(choice, ""), hs)
                   /\ UNCHANGED docs
              ELSE /\ docs' = [docs EXCEPT ![c] = Remove(@, f.args.criteria, TRUE)]
                   /\ IF f.args.datalist
                      THEN Continue(p, Below(p) \o <<[f EXCEPT !.pc = "return"], FindsFrame(c)>>,
                                    close_mongodb_connection(hs, f.client))
                      ELSE Return(p, None, close_mongodb_connection(hs, f.client))
    /\ UNCHANGED <<env, incrementors, collections, indexes, returned, created>>

\* line 311: return finds(database, collection)
DeleteManyReturn(p) ==
    /\ At(p, "delete_many", "return")
    /\ Return(p, Top(p).ret, handles[p])
    /\ UNCHANGED <<env, store, nfaults, returned, created>>

\* ------------------------------------------------------------------ pymongo_helper.py: update_one
\* line 350: db = client[database] reads the local `client` before line 353
\* binds it, outside the try: every call raises UnboundLocalError there.
UpdateOne(p) ==
    /\ At(p, "update_one", "client")
    /\ Raise(p, Exc("UnboundLocalError", "client"), handles[p])
    /\ UNCHANGED <<env, store, nfaults, returned, created>>

\* ------------------------------------------------------------------ the calls of the exposed functions
SmallCriteria == {CRITERIA, [field |-> "id", value |-> IntV(1)]}

\* The default projection, and one that asks for every field insert_one sets
\* and leaves the _id in.
FindProjections ==
    {PROJECTION,
     [id |-> TRUE, record_id |-> TRUE, created_at |-> TRUE, updated_at |-> TRUE]}

Pager(keys, skip, limit) ==
    [supplied |-> TRUE, keys |-> keys,
     skip |-> IF "skip" \in keys THEN skip ELSE 0,
     limit |-> IF "limit" \in keys THEN limit ELSE 0]

SmallPagers == {NoPager, Pager({}, 0, 0), Pager({"page"}, 0, 0), Pager({"limit"}, 0, 1),
                Pager({"skip", "limit"}, 1, 1)}

\* The arguments each exposed function is called with: constant sets, which
\* are evaluated once, before the search starts.
NextIdentifierArgs == {[collection |-> c] : c \in Names}

CollectionExistArgs ==
    {[collection |-> c, create_it |-> create_it] : c \in Names, create_it \in BOOLEAN}

CreateIndexArgs ==
    {[collection |-> c, index_name |-> index_name] : c \in Names, index_name \in IndexFields}

CheckIndexArgs ==
    {[collection |-> c, index_name |-> index_name, create_it |-> create_it] :
         c \in Names, index_name \in IndexFields, create_it \in BOOLEAN}

FindOneArgs ==
    {[collection |-> c, criteria |-> criteria, projection |-> projection] :
         c \in Names, criteria \in SmallCriteria, projection \in FindProjections}

FindsArgs == {[FindsDefaults(c) EXCEPT !.pager = pager] : c \in Names, pager \in SmallPagers}

InsertOneArgs == {[collection |-> c, datalist |-> datalist] : c \in Names, datalist \in BOOLEAN}

InsertManyArgs ==
    {[collection |-> c, datas |-> datas, datalist |-> FALSE] :
         c \in Names, datas \in {<<>>, <<"data">>}}

AggregateArgs == {[collection |-> c, pipeline |-> CRITERIA] : c \in Names}

CountArgs == {[collection |-> c, criteria |-> CRITERIA] : c \in Names}

DeleteArgs ==
    {[collection |-> c, criteria |-> criteria, datalist |-> datalist] :
         c \in Names, criteria \in SmallCriteria, datalist \in BOOLEAN}

UpdateOneArgs == {[collection |-> c, datalist |-> TRUE] : c \in Names}

CallNextIdentifier(p) == \E args \in NextIdentifierArgs : Call(p, Gen, "connect", args)
CallCollectionExist(p) == \E args \in CollectionExistArgs : Call(p, Exist, "connect", args)
CallCreateIndex(p) == \E args \in CreateIndexArgs : Call(p, CreateIndex, "connect", args)
CallCheckIndex(p) == \E args \in CheckIndexArgs : Call(p, CheckIndex, "connect", args)
CallFindOne(p) == \E args \in FindOneArgs : Call(p, "find_one", "connect", args)
CallFinds(p) == \E args \in FindsArgs : Call(p, "finds", "connect", args)
CallInsertOne(p) == \E args \in InsertOneArgs : Call(p, "insert_one", "connect", args)
CallInsertMany(p) == \E args \in InsertManyArgs : Call(p, "insert_many", "connect", args)
CallAggregate(p) == \E args \in AggregateArgs : Call(p, "aggregate", "connect", args)
CallCount(p) == \E args \in CountArgs : Call(p, "count", "connect", args)
CallDeleteOne(p) == \E args \in DeleteArgs : Call(p, "delete_one", "connect", args)
CallDeleteMany(p) == \E args \in DeleteArgs : Call(p, "delete_many", "connect", args)
CallUpdateOne(p) == \E args \in UpdateOneArgs : Call(p, "update_one", "client", args)

\* ------------------------------------------------------------------ the initial states
\* The record the i-th insert_one of a collection leaves, made at tick t.
InitialDoc(i, t) ==
    Stamped([created_at |-> Datetime(t), updated_at |-> Datetime(t)], IntV(i), i)

\* A store in which k records were inserted into collection "a", one per
\* tick, by k insert_one calls in a row; nothing is running.
Populated(k) ==
    /\ docs = [c \in Names |-> IF c = "a" THEN [i \in 1..k |-> InitialDoc(i, i)] ELSE <<>>]
    /\ incrementors = IF k = 0 THEN {} ELSE {[key |-> "a", tally |-> k]}
    /\ collections = IF k = 0 THEN {} ELSE {"a", incrementor_collection}
    /\ indexes = [c \in Names |-> {}]
    /\ returned = [c \in Names |->
                      IF c = "a" THEN [i \in 1..k |-> Minted(i, "insert_one")] ELSE <<>>]
    /\ created = [c \in Names |-> IF c = "a" THEN [i \in 1..k |-> i] ELSE <<>>]
    /\ fresh = k

Idle ==
    /\ pymongo_version \in {3, 4}
    /\ stack = [p \in Callers |-> <<>>]
    /\ handles = [p \in Callers |-> <<>>]
    /\ outcome = [p \in Callers |-> NoOutcome]
    /\ nfaults = 0
    /\ concurrent = FALSE

Init ==
    /\ Idle
    /\ \E k \in 0..MaxInit : Populated(k)
    /\ now = MaxInit
    /\ calls_left = MaxOps
    /\ records = <<>>

Next ==
    \E p \in Procs :
        \/ CallNextIdentifier(p) \/ GenConnect(p) \/ GenFindOneAndUpdate(p) \/ GenInsertOne(p)
        \/ CallCollectionExist(p) \/ ExistConnect(p) \/ ExistList(p)
        \/ AddCollectionReturn(p) \/ ExistClose(p)
        \/ CallCreateIndex(p) \/ CreateIndexConnect(p) \/ CreateIndexInfo(p)
        \/ CreateIndexCreate(p)
        \/ CallCheckIndex(p) \/ CheckIndexConnect(p) \/ CheckIndexInfo(p) \/ CheckIndexClose(p)
        \/ CallFindOne(p) \/ FindOneConnect(p) \/ FindOneQuery(p)
        \/ CallFinds(p) \/ FindsConnect(p) \/ FindsCursor(p) \/ FindsIterate(p)
        \/ CallInsertOne(p) \/ InsertOneConnect(p) \/ InsertOneStamp(p)
        \/ InsertOnePersist(p) \/ InsertOneReturn(p)
        \/ CallInsertMany(p) \/ InsertManyConnect(p) \/ InsertManyLoop(p) \/ InsertManyAppend(p)
        \/ CallAggregate(p) \/ AggregateConnect(p) \/ AggregateRun(p)
        \/ CallCount(p) \/ CountConnect(p) \/ CountQuery(p)
        \/ CallDeleteOne(p) \/ DeleteOneConnect(p) \/ DeleteOneDelete(p) \/ DeleteOneReturn(p)
        \/ CallDeleteMany(p) \/ DeleteManyConnect(p) \/ DeleteManyDelete(p)
        \/ DeleteManyReturn(p)
        \/ CallUpdateOne(p) \/ UpdateOne(p)

\* One caller calls the exposed functions one after another.
Spec == Init /\ [][Next]_vars

\* ------------------------------------------------------------------ the generator under concurrent callers
InitGen ==
    /\ Idle
    /\ \E k \in 0..MaxInit : Populated(k)
    /\ now = MaxInit
    /\ calls_left = MaxCalls
    /\ records = <<>>

NextGen ==
    \E p \in Callers :
        \/ CallNextIdentifier(p) \/ GenConnect(p) \/ GenFindOneAndUpdate(p) \/ GenInsertOne(p)

\* Every caller calls next_record_identifier_value, in any interleaving.
SpecGen == InitGen /\ [][NextGen]_vars

\* ------------------------------------------------------------------ finds over collections and arguments
\* Collections of up to MaxDocs records with ids 1, 2, ... as insert_one
\* numbers them, made at ticks that never decrease (two records may share a
\* tick).
FindTicks == 1..(MaxTick + 1)

FindCollections ==
    UNION {{[i \in 1..n |-> InitialDoc(i, t[i])] :
                t \in {u \in [1..n -> FindTicks] : \A i \in 1..(n - 1) : u[i] <= u[i + 1]}} :
           n \in 0..MaxDocs}

FindSorts == {SORT, [field |-> "created_at", direction |-> 1]}
FindPagers ==
    {NoPager}
    \cup {Pager(keys, 0, 0) : keys \in (SUBSET keys_to_check) \ {keys_to_check}}
    \cup {Pager(keys_to_check, skip, limit) : skip \in 0..MaxSkip, limit \in 0..MaxLimit}

FindsAnyArgs ==
    {[collection |-> "a", projection |-> projection, criteria |-> criteria,
      sort |-> sort, limit |-> limit, pager |-> pager] :
         projection \in FindProjections, criteria \in SmallCriteria, sort \in FindSorts,
         limit \in 0..MaxLimit, pager \in FindPagers}

CallFindsAny(p) == \E args \in FindsAnyArgs : Call(p, "finds", "connect", args)

\* find_one on these collections: every record, no record, the records of
\* one tick.
FindOneCriteria ==
    {CRITERIA, [field |-> "id", value |-> IntV(MaxDocs + 1)],
     [field |-> "created_at", value |-> Datetime(MaxTick + 1)]}

FindOneAnyArgs ==
    {[collection |-> "a", criteria |-> criteria, projection |-> projection] :
         criteria \in FindOneCriteria, projection \in FindProjections}

CallFindOneAny(p) == \E args \in FindOneAnyArgs : Call(p, "find_one", "connect", args)

InitFind ==
    /\ Idle
    /\ \E documents \in FindCollections :
        /\ docs = [c \in Names |-> IF c = "a" THEN documents ELSE <<>>]
        /\ incrementors = IF documents = <<>> THEN {}
                          ELSE {[key |-> "a", tally |-> Len(documents)]}
        /\ collections = IF documents = <<>> THEN {} ELSE {"a", incrementor_collection}
        /\ returned = [c \in Names |->
                          IF c = "a" THEN [i \in 1..Len(documents) |-> Minted(i, "insert_one")]
                          ELSE <<>>]
        /\ created = [c \in Names |-> IF c = "a" THEN [i \in 1..Len(documents) |-> i] ELSE <<>>]
        /\ fresh = Len(documents)
    /\ indexes = [c \in Names |-> {}]
    /\ now = MaxTick + 1
    /\ calls_left = 1
    /\ records = <<>>

NextFind ==
    \E p \in Procs :
        \/ CallFindsAny(p) \/ FindsConnect(p) \/ FindsCursor(p) \/ FindsIterate(p)
        \/ CallFindOneAny(p) \/ FindOneConnect(p) \/ FindOneQuery(p)

\* One call of finds or find_one, with any arguments, on any such collection.
SpecFind == InitFind /\ [][NextFind]_vars

\* ------------------------------------------------------------------ utils.py: datetime_formater called on its own
\* A reference to the i-th record object.
Ref(i) == <<"ref", i>>

\* Records of up to three fields whose values are integers, texts and
\* timestamps (two ticks make a second).
FormaterFields == {"id", "created_at", "updated_at"}
FormaterValues == {IntV(1), Str(0)} \cup {Datetime(t) : t \in 0..(MaxTick + 1)}
FormaterRecords == UNION {[keys -> FormaterValues] : keys \in SUBSET FormaterFields}

\* What datetime_formater is called with: None, or the caller's record.
FormaterArgs == {[iters |-> None], [iters |-> Ref(1)]}

CallFormater(p) == \E args \in FormaterArgs : Call(p, "datetime_formater", "for", args)

\* lines 19-22: iterating None is a TypeError; the datetime values of a
\* record are replaced in the record itself, which is what is returned.
Formater(p) ==
    /\ At(p, "datetime_formater", "for")
    /\ LET iters == Top(p).args.iters
       IN IF iters = None
          THEN /\ Raise(p, Exc("TypeError", "'NoneType' object is not iterable"), handles[p])
               /\ UNCHANGED records
          ELSE /\ records' = [records EXCEPT ![iters[2]] = datetime_formater(@)]
               /\ Return(p, iters, handles[p])
    /\ UNCHANGED <<pymongo_version, now, fresh, calls_left, concurrent, store, nfaults,
                   returned, created>>

\* The caller holds a record (records[1]) and a copy of it made beforehand
\* (records[2]), which no call touches.
InitFormater ==
    /\ Idle
    /\ Populated(0)
    /\ now = MaxInit
    /\ calls_left = MaxOps
    /\ \E record \in FormaterRecords : records = <<record, record>>

NextFormater == \E p \in Procs : CallFormater(p) \/ Formater(p)

\* datetime_formater called on None or on a record, MaxOps times in a row.
SpecFormater == InitFormater /\ [][NextFormater]_vars

\* ================================================================== the claims
Quiescent == \A p \in Callers : stack[p] = <<>>
Values(c) == {returned[c][i].value : i \in 1..Len(returned[c])}
Tally(c) == IF \E d \in incrementors : d.key = c
            THEN (CHOOSE d \in incrementors : d.key = c).tally ELSE 0

\* C1 (as claimed): with no failure of the store or the connection, every
\* call of the generator returns a value, and once all calls are over the
\* values returned for a name are exactly 1..N, N the number of calls.
C1_EveryCallReturnsOneToN ==
    nfaults = 0 =>
        /\ \A p \in Callers : outcome[p].fn = Gen => outcome[p].kind # "raise"
        /\ Quiescent => \A c \in Names : Values(c) = 1..Len(returned[c])

\* C2: no two calls of the generator for one name return the same integer,
\* whatever the interleaving, first use included.
C2_NoDuplicateIdentifiers ==
    \A c \in Names : \A i, j \in 1..Len(returned[c]) :
        i # j => returned[c][i].value # returned[c][j].value

\* C2 witness: callers overlapped, one lost the race of the first use of "b"
\* (it raised with no failure injected), and two identifiers were returned.
C2_Witness ==
    /\ concurrent
    /\ nfaults = 0
    /\ \E p \in Callers : outcome[p].kind = "raise" /\ outcome[p].args.collection = "b"
    /\ Len(returned["b"]) >= 2

\* C3: at most one counter entry per name, one for every name an identifier
\* was minted for, and no step lowers a tally.
C3_OneCounterPerNameMonotone ==
    /\ [](/\ \A d, e \in incrementors : d.key = e.key => d = e
          /\ \A c \in Names : returned[c] # <<>> => \E d \in incrementors : d.key = c)
    /\ [][\A c \in Names : Tally(c)' >= Tally(c)]_vars

\* C3 witness: both names have a counter, one of them advanced past 1.
C3_Witness ==
    /\ \A c \in Names : returned[c] # <<>> /\ Tally(c) >= 1
    /\ \E c \in Names : Tally(c) >= 2

\* C7 (as claimed): close() is applied exactly once to every client: never
\* twice, and once the call is over, once.
C7_ClosedExactlyOnce ==
    \A p \in Callers : \A i \in 1..Len(handles[p]) :
        /\ handles[p][i].closes <= 1
        /\ stack[p] = <<>> => handles[p][i].closes = 1

\* C8: calls of the generator one after another on a name return 1, 2, 3, ...:
\* the k-th returns k.
C8_SequentialCallsCount ==
    ~concurrent =>
        \A c \in Names : \A k \in 1..Len(returned[c]) : returned[c][k].value = k

\* C8 witness: two calls in a row on the unused name "b" returned 1, then 2.
C8_Witness ==
    /\ ~concurrent
    /\ Len(returned["b"]) = 2
    /\ returned["b"][1].value = 1 /\ returned["b"][2].value = 2
    /\ returned["b"][1].by = Gen /\ returned["b"][2].by = Gen

\* C4 (as claimed): where every identifier of a collection was minted by
\* insert_one, insert_many or collection_exist and every insert that minted
\* one persisted its record, the k-th record created has id k.
C4_IdsContiguousFromOne ==
    \A c \in Names :
        LET inserts == {i \in 1..Len(returned[c]) :
                            returned[c][i].by \in {"insert_one", "insert_many"}}
        IN (/\ Quiescent
            /\ \A i \in 1..Len(returned[c]) :
                   returned[c][i].by \in {"insert_one", "insert_many", Exist}
            /\ Cardinality(inserts) = Len(created[c]))
           => \A k \in 1..Len(created[c]) : created[c][k] = k

\* C5 (as claimed): when an exposed function returns, every client it or
\* the functions it called made is closed.
C5_ReleasedOnReturn ==
    \A p \in Callers :
        (stack[p] = <<>> /\ outcome[p].kind = "return")
            => \A i \in 1..Len(handles[p]) : ~handles[p][i].open

\* C6 (as claimed): when an exposed function raises, every client it or the
\* functions it called made is closed.
C6_ReleasedOnFailure ==
    \A p \in Callers :
        (stack[p] = <<>> /\ outcome[p].kind = "raise")
            => \A i \in 1..Len(handles[p]) : ~handles[p][i].open

\* C9 (as claimed): finds called with a pager that lacks skip or limit, once
\* connected, raises the pager ValueError and sends no query.
C9_IncompletePagerRejected ==
    \A p \in Callers :
        (/\ stack[p] = <<>>
         /\ outcome[p].fn = "finds"
         /\ outcome[p].args.pager.supplied
         /\ ~(keys_to_check \subseteq outcome[p].args.pager.keys)
         /\ handles[p] # <<>>)
        => /\ outcome[p].kind = "raise"
           /\ outcome[p].exc = Exc("ValueError", "Pager should have skip and limit key vlaue")
           /\ handles[p][1].requests = 0

\* The records finds hands back for a page of the matching documents in sort
\* order: projected, timestamps as text.
Sorted(args) == SortDocs(Filter(docs[args.collection], args.criteria), args.sort)
Shown(documents, args) ==
    [i \in 1..Len(documents) |-> datetime_formater(Project(documents[i], args.projection))]
Positions(documents, first, last) ==
    [i \in 1..(Min(last, Len(documents)) - first + 1) |-> documents[first + i - 1]]
PagedCall(p) ==
    /\ stack[p] = <<>>
    /\ outcome[p].fn = "finds"
    /\ outcome[p].kind = "return"
    /\ keys_to_check \subseteq outcome[p].args.pager.keys

\* C10 (as claimed): finds with pager {skip: s, limit: l} returns the records
\* at positions s+1 .. s+l of the matching records in sort order, whatever
\* the limit argument.
C10_PageIsPositions ==
    \A p \in Procs :
        PagedCall(p) =>
            LET args == outcome[p].args
            IN outcome[p].value[2] =
                   Shown(Positions(Sorted(args), args.pager.skip + 1,
                                   args.pager.skip + args.pager.limit), args)

\* C10 (amended): a finds call with pager {skip: s, limit: l} that returns,
\* returns the records at positions s+1 .. s+l of the matching records in
\* sort order when l >= 1, and every record from position s+1 on when l = 0,
\* whatever the limit argument.
C10_PageIsPositionsOrRest ==
    \A p \in Procs :
        PagedCall(p) =>
            LET args == outcome[p].args
                last == IF args.pager.limit = 0 THEN Len(Sorted(args))
                        ELSE args.pager.skip + args.pager.limit
            IN outcome[p].value[2] =
                   Shown(Positions(Sorted(args), args.pager.skip + 1, last), args)

\* C10 witness: skip 1, limit 2 and a limit argument of 1 on four records
\* returned two records, the second and third in sort order.
C10_Witness ==
    \E p \in Procs :
        /\ PagedCall(p)
        /\ Len(docs["a"]) = 4
        /\ outcome[p].args.criteria = CRITERIA
        /\ outcome[p].args.limit = 1
        /\ outcome[p].args.pager.skip = 1 /\ outcome[p].args.pager.limit = 2
        /\ Len(outcome[p].value[2]) = 2
        /\ outcome[p].value[2][1].id # Sorted(outcome[p].args)[1].id

\* A finds call without a pager (none, or an empty one) that returned.
UnpagedCall(p) ==
    /\ stack[p] = <<>>
    /\ outcome[p].fn = "finds"
    /\ outcome[p].kind = "return"
    /\ ~Truthy(outcome[p].args.pager)

\* C11: a finds call without a pager that returns, returns the first `limit`
\* matching records in sort order when limit > 0 and all of them, in sort
\* order, when limit = 0.
C11_LimitBoundsAfterSort ==
    \A p \in Procs :
        UnpagedCall(p) =>
            LET args == outcome[p].args
                last == IF args.limit = 0 THEN Len(Sorted(args)) ELSE args.limit
            IN outcome[p].value[2] = Shown(Positions(Sorted(args), 1, last), args)

\* C11 witness: limit 2 on four records, newest first, returned two records,
\* the first of them the last one inserted; and the sort changed the order.
C11_Witness ==
    \E p \in Procs :
        /\ UnpagedCall(p)
        /\ ~outcome[p].args.pager.supplied
        /\ Len(docs["a"]) = 4
        /\ outcome[p].args.criteria = CRITERIA
        /\ outcome[p].args.sort = SORT
        /\ outcome[p].args.limit = 2
        /\ Len(outcome[p].value[2]) = 2
        /\ outcome[p].value[2][1].id = IntV(4)

\* A find_one call that returned a record.
FoundOne(p) ==
    /\ stack[p] = <<>>
    /\ outcome[p].fn = "find_one"
    /\ outcome[p].kind = "return"
    /\ outcome[p].value[1] = "record"

\* The record a find_one call returned is whole: id, reference key and both
\* timestamps are there, the timestamps are equal, and the id is one the
\* generator minted for an insert_one into that collection.
Whole(p) ==
    LET r == outcome[p].value[2]
        c == outcome[p].args.collection
    IN /\ {"id", reference_key, "created_at", "updated_at"} \subseteq DOMAIN r
       /\ r.created_at = r.updated_at
       /\ \E i \in 1..Len(returned[c]) : returned[c][i] = Minted(r.id[2], "insert_one")
       /\ r.id[2] \in {created[c][k] : k \in 1..Len(created[c])}

\* C12 (as claimed): every record find_one returns is whole, whatever the
\* projection.
C12_InsertedRecordWhole ==
    \A p \in Procs : FoundOne(p) => Whole(p)

\* C12 (amended): every record find_one returns under a projection that asks
\* for id, reference key, created_at and updated_at is whole.
C12_InsertedRecordWholeWhenProjected ==
    \A p \in Procs :
        (/\ FoundOne(p)
         /\ \A f \in {"id", reference_key, "created_at", "updated_at"} :
                Included(f, outcome[p].args.projection))
        => Whole(p)

\* C12 witness: insert_one into the empty collection "b", then find_one on
\* id 1 with the full projection, returned the record, its id 1 minted while
\* another token count was in use (the reference key is token 2).
C12_Witness ==
    \E p \in Procs :
        /\ FoundOne(p)
        /\ outcome[p].args.collection = "b"
        /\ outcome[p].args.criteria = [field |-> "id", value |-> IntV(1)]
        /\ Included("created_at", outcome[p].args.projection)
        /\ Len(docs["b"]) = 1
        /\ returned["b"] = <<Minted(1, "insert_one")>>
        /\ outcome[p].value[2].id = IntV(1)
        /\ outcome[p].value[2][reference_key] = Uuid(2)

\* What finds(database, collection) returns in the current state: every
\* record of the collection, newest first, under the default projection.
Listing(c) ==
    LET all == [collection |-> c, projection |-> PROJECTION, criteria |-> CRITERIA,
                sort |-> SORT]
    IN List(Shown(Sorted(all), all))

Returned(p, fn) ==
    /\ stack[p] = <<>>
    /\ outcome[p].fn = fn
    /\ outcome[p].kind = "return"

\* C13: an insert_one call that returns has persisted its record and returns
\* the listing of the collection, the new record in it, when datalist is
\* true, and the reference key stored on the new record when it is false.
C13_InsertOneReturnsListingOrKey ==
    \A p \in Procs :
        Returned(p, "insert_one") =>
            LET c == outcome[p].args.collection
                new == docs[c][Len(docs[c])]
            IN /\ docs[c] # <<>>
               /\ new.id = IntV(returned[c][Len(returned[c])].value)
               /\ IF outcome[p].args.datalist
                  THEN /\ outcome[p].value = Listing(c)
                       /\ \E i \in 1..Len(outcome[p].value[2]) :
                              outcome[p].value[2][i].id = new.id
                  ELSE outcome[p].value = new[reference_key]

\* C13 witness: an insert_one into a collection that held a record returned
\* the listing of two records; another returned the key.
C13_Witness ==
    \E p \in Procs :
        /\ Returned(p, "insert_one")
        /\ outcome[p].args.datalist
        /\ Len(outcome[p].value[2]) >= 2

C13_WitnessKey ==
    \E p \in Procs :
        /\ Returned(p, "insert_one")
        /\ ~outcome[p].args.datalist
        /\ Len(docs[outcome[p].args.collection]) >= 2
        /\ outcome[p].value[1] = "uuid"

\* C14 (as claimed): an insert_many call on n >= 1 records, with no failure of
\* the store or the connection, returns, and returns n reference keys (the
\* datalist flag is false in every call of the model).
C14_InsertManyReturnsKeys ==
    \A p \in Procs :
        (/\ stack[p] = <<>>
         /\ outcome[p].fn = "insert_many"
         /\ outcome[p].args.datas # <<>>
         /\ nfaults = 0)
        => /\ outcome[p].kind = "return"
           /\ outcome[p].value[1] = "list"
           /\ Len(outcome[p].value[2]) = Len(outcome[p].args.datas)

\* C15 (as claimed): an update_one call on a collection that holds a record,
\* with no failure of the store or the connection, completes: it returns.
C15_UpdateOneCompletes ==
    \A p \in Procs :
        (/\ stack[p] = <<>>
         /\ outcome[p].fn = "update_one"
         /\ docs[outcome[p].args.collection] # <<>>
         /\ nfaults = 0)
        => outcome[p].kind = "return"

\* C16 (as claimed): a delete_one or delete_many call that returns, returns
\* the listing of what is left when datalist is true and True when it is
\* false; after delete_many no record matches the criteria.
C16_DeleteReturnsListingOrTrue ==
    \A p \in Procs :
        (Returned(p, "delete_one") \/ Returned(p, "delete_many")) =>
            LET c == outcome[p].args.collection
            IN /\ outcome[p].fn = "delete_many"
                      => Filter(docs[c], outcome[p].args.criteria) = <<>>
               /\ outcome[p].value = IF outcome[p].args.datalist THEN Listing(c)
                                     ELSE Bool(TRUE)

\* C17 (as claimed): when collection_exist(c, create_it=True) has returned
\* after finding c absent, c is among the collections of the database (what
\* a following collection_exist reads).
C17_CreateItMaterializes ==
    \A p \in Procs :
        (/\ Returned(p, Exist)
         /\ outcome[p].args.create_it
         /\ outcome[p].value = Bool(FALSE))
        => outcome[p].args.collection \in collections

\* The composite name a call of an index function is about.
KeyOf(args) == index_key(args.collection, args.index_name)

\* C18: the indexes of a collection carry composite names only, and the one
\* a returned check_index(create_it=True) or create_index call is about is
\* there; no step drops an index; create_index is sent to the store only
\* while the name is absent, so that one index is created under it; and a
\* check_index that finds the name makes no other call and returns True.
C18_OneIndexPerCompositeName ==
    /\ [](/\ \A c \in Names : indexes[c] \subseteq {index_key(c, f) : f \in IndexFields}
          /\ \A p \in Procs :
                 (\/ Returned(p, CheckIndex) /\ outcome[p].args.create_it
                  \/ Returned(p, CreateIndex))
                 => KeyOf(outcome[p].args) \in indexes[outcome[p].args.collection])
    /\ [][\A c \in Names : indexes[c] \subseteq indexes'[c]]_vars
    /\ [][\A p \in Procs :
             (At(p, CreateIndex, "create_index") /\ stack'[p] # stack[p])
             => KeyOf(Top(p).args) \notin indexes[Top(p).args.collection]]_vars
    /\ [][\A p \in Procs :
             (/\ At(p, CheckIndex, "index_information")
              /\ KeyOf(Top(p).args) \in indexes[Top(p).args.collection]
              /\ stack'[p] # stack[p]
              /\ outcome'[p].kind = "return")
             => /\ outcome'[p].value = Bool(TRUE)
                /\ stack'[p] = <<>>
                /\ indexes' = indexes
                /\ Len(handles'[p]) = 1 /\ handles'[p][1].requests = 1]_vars

\* C18 witness: the second of two check_index(create_it=True) calls on "a"
\* returned True through a single client; the index is there.
C18_Witness ==
    \E p \in Procs :
        /\ Returned(p, CheckIndex)
        /\ outcome[p].args.create_it
        /\ outcome[p].args.collection = "a"
        /\ outcome[p].value = Bool(TRUE)
        /\ calls_left = 0
        /\ Len(handles[p]) = 1
        /\ indexes["a"] = {index_key("a", "title")}

\* C19 (as claimed): whatever an exposed function raises is of the error
\* taxonomy, whose four kinds the code all raises as ValueError.
C19_OnlyTaxonomyErrors ==
    \A p \in Procs :
        (stack[p] = <<>> /\ outcome[p].kind = "raise") => outcome[p].exc.cls = "ValueError"

\* The text of an exception names collection c.
Identifies(e, c) == e.msg = c \/ e.cause = c

\* C20 (as claimed): whatever next_record_identifier_value raises to its
\* caller is a ValueError whose text names the collection.
C20_GeneratorFailureNamesCollection ==
    \A p \in Callers :
        (stack[p] = <<>> /\ outcome[p].fn = Gen /\ outcome[p].kind = "raise")
        => /\ outcome[p].exc.cls = "ValueError"
           /\ Identifies(outcome[p].exc, outcome[p].args.collection)

\* C21 (as claimed): an aggregate call, with no failure of the store or the
\* connection, returns one normalized record per record the pipeline puts
\* out, in the pipeline's order, whether the output is empty or not.
C21_AggregateReturnsNormalizedOutput ==
    \A p \in Procs :
        (/\ stack[p] = <<>>
         /\ outcome[p].fn = "aggregate"
         /\ nfaults = 0)
        => LET output == Filter(docs[outcome[p].args.collection], outcome[p].args.pipeline)
           IN /\ outcome[p].kind = "return"
              /\ outcome[p].value =
                     List([i \in 1..Len(output) |-> datetime_formater(output[i])])

\* C22 (as claimed): datetime_formater called on None returns None and raises
\* nothing.
C22_AbsentYieldsAbsent ==
    \A p \in Procs :
        (/\ stack[p] = <<>>
         /\ outcome[p].fn = "datetime_formater"
         /\ outcome[p].args.iters = None)
        => /\ outcome[p].kind = "return"
           /\ outcome[p].value = None

\* A datetime_formater call on the caller's record that returned.
Formatted(p) ==
    /\ Returned(p, "datetime_formater")
    /\ outcome[p].args.iters = Ref(1)

Timestamps(record) == {key \in DOMAIN record : record[key][1] = "datetime"}

\* The record is what normalizing the original gives: the same field names,
\* the text of every timestamp, every other value as it was.
Normalized(record, original) ==
    /\ DOMAIN record = DOMAIN original
    /\ \A key \in DOMAIN original :
           record[key] = IF key \in Timestamps(original)
                         THEN Str(original[key][2] \div TicksPerSecond)
                         ELSE original[key]

\* C23: datetime_formater called on a record returns that very record, which
\* then is the normalized form of what it was (of the copy made beforehand);
\* a record without a timestamp is returned as it was; and a call on a
\* record that is normalized already changes nothing.
C23_NormalizeRewritesTimestampsOnly ==
    /\ [](\A p \in Procs :
              Formatted(p) =>
                  /\ outcome[p].value = Ref(1)
                  /\ Normalized(records[1], records[2])
                  /\ Timestamps(records[2]) = {} => records[1] = records[2])
    /\ [][\A p \in Procs :
             (/\ At(p, "datetime_formater", "for")
              /\ Top(p).args.iters = Ref(1)
              /\ Normalized(records[1], records[2])
              /\ stack'[p] # stack[p])
             => /\ records' = records
                /\ outcome'[p].kind = "return"
                /\ outcome'[p].value = Ref(1)]_vars

\* C23 witness: the last of the calls returned the record, in which two
\* timestamps of the same second (ticks 0 and 1) are the same text and the
\* id is as it was; the copy still holds the timestamps.
C23_Witness ==
    \E p \in Procs :
        /\ Formatted(p)
        /\ calls_left = 0
        /\ records[2] = [id |-> IntV(1), created_at |-> Datetime(0), updated_at |-> Datetime(1)]
        /\ records[1] = [id |-> IntV(1), created_at |-> Str(0), updated_at |-> Str(0)]

\* C24: a find_one call, with no failure of the store or the connection,
\* returns: the first record that matches, in the collection's order,
\* projected and with its timestamps as text, or None when no record matches.
C24_FindOneFirstMatchOrNone ==
    \A p \in Procs :
        (/\ stack[p] = <<>>
         /\ outcome[p].fn = "find_one"
         /\ nfaults = 0)
        => LET args == outcome[p].args
               found == Filter(docs[args.collection], args.criteria)
           IN /\ outcome[p].kind = "return"
              /\ outcome[p].value =
                     IF found = <<>> THEN None
                     ELSE Record(datetime_formater(Project(found[1], args.projection)))

\* C24 witness: of four records the third and fourth match; the third was
\* returned, its timestamp as text.
C24_Witness ==
    \E p \in Procs :
        /\ FoundOne(p)
        /\ Included("created_at", outcome[p].args.projection)
        /\ Len(docs["a"]) = 4
        /\ Len(Filter(docs["a"], outcome[p].args.criteria)) = 2
        /\ outcome[p].value[2].id = IntV(3)
        /\ outcome[p].value[2].created_at = Str((MaxTick + 1) \div TicksPerSecond)

\* C24 witness: no record of a collection of four matched, and None was
\* returned.
C24_WitnessNone ==
    \E p \in Procs :
        /\ Returned(p, "find_one")
        /\ Len(docs["a"]) = 4
        /\ outcome[p].value = None

\* The created_at of the stored record of collection c that has this id.
CreatedAt(c, id) ==
    LET i == CHOOSE i \in 1..Len(docs[c]) : docs[c][i].id = id
    IN docs[c][i].created_at[2]

\* C25: the records a finds or find_one call returns under the default
\* projection hold the id and nothing else (no native identifier, no
\* reference key, no timestamp), and the records a finds call returns under
\* the default sort are in the order of their created_at, newest first.
C25_DefaultsIdOnlyNewestFirst ==
    \A p \in Procs :
        /\ (Returned(p, "finds") /\ outcome[p].args.projection = PROJECTION)
               => \A i \in 1..Len(outcome[p].value[2]) :
                      DOMAIN outcome[p].value[2][i] = {"id"}
        /\ (FoundOne(p) /\ outcome[p].args.projection = PROJECTION)
               => DOMAIN outcome[p].value[2] = {"id"}
        /\ (Returned(p, "finds") /\ outcome[p].args.sort = SORT)
               => LET c == outcome[p].args.collection
                      datas == outcome[p].value[2]
                  IN \A i, j \in 1..Len(datas) :
                         i < j => CreatedAt(c, datas[i].id) >= CreatedAt(c, datas[j].id)

\* C25 witness: finds with every default on four records, the last one
\* newer than the first, returned four records of the one field id, the
\* last one inserted first.
C25_Witness ==
    \E p \in Procs :
        /\ Returned(p, "finds")
        /\ outcome[p].args = [collection |-> "a", projection |-> PROJECTION,
                                criteria |-> CRITERIA, sort |-> SORT, limit |-> 0,
                                pager |-> NoPager]
        /\ Len(docs["a"]) = 4
        /\ docs["a"][1].created_at # docs["a"][4].created_at
        /\ Len(outcome[p].value[2]) = 4
        /\ outcome[p].value[2][1] = [id |-> IntV(4)]

\* C25 witness: find_one with the default projection returned a record.
C25_WitnessFindOne ==
    \E p \in Procs :
        /\ FoundOne(p)
        /\ outcome[p].args.projection = PROJECTION
        /\ outcome[p].value[2] = [id |-> IntV(1)]

\* The step in which the insert of insert_one fails.
PersistFails(p) ==
    /\ At(p, "insert_one", "insert_one")
    /\ stack'[p] = <<>>
    /\ outcome'[p].kind = "raise"

\* C26: for calls made one after another, the tally of a collection is the
\* number of identifiers minted for it and the k-th identifier minted is k,
\* so that none is minted twice; the step in which insert_one's insert fails
\* leaves the tally at the identifier this call was given, and stores
\* nothing; and an insert_one that returns has stored its record under the
\* tally, the integer after the one a failed insert before it was given.
C26_NoCounterRollback ==
    /\ [](\A c \in Names :
              /\ Tally(c) = Len(returned[c])
              /\ \A k \in 1..Len(returned[c]) : returned[c][k].value = k
              /\ \A p \in Procs :
                     (Returned(p, "insert_one") /\ outcome[p].args.collection = c)
                     => /\ docs[c] # <<>>
                        /\ docs[c][Len(docs[c])].id = IntV(Tally(c))
                        /\ created[c][Len(created[c])] = Tally(c))
    /\ [][\A p \in Procs :
             PersistFails(p) =>
                 LET c == Top(p).args.collection
                 IN /\ Tally(c) = Top(p).ret[2]
                    /\ incrementors' = incrementors
                    /\ docs' = docs /\ created' = created]_vars

\* C26 witness: two insert_one calls into "b": the first was given 1 and
\* failed to insert, the second returned and its record has id 2.
C26_Witness ==
    \E p \in Procs :
        /\ Returned(p, "insert_one")
        /\ outcome[p].args.collection = "b"
        /\ nfaults = 1
        /\ returned["b"] = <<Minted(1, "insert_one"), Minted(2, "insert_one")>>
        /\ created["b"] = <<2>>
        /\ Len(docs["b"]) = 1 /\ docs["b"][1].id = IntV(2)
        /\ Tally("b") = 2

\* C27 (as claimed): no request is sent to the store through a client that
\* was closed before; finds iterates its cursor before it closes its client.
C27_NoRequestAfterRelease ==
    \A p \in Procs : \A i \in 1..Len(handles[p]) : ~handles[p][i].after_close

\* The step in which collection_exist or check_index_on_collection, asked to
\* create, reads the store and goes on.
Observes(p, fn, pc) ==
    /\ At(p, fn, pc)
    /\ Top(p).args.create_it
    /\ stack'[p] # stack[p]
    /\ outcome'[p].kind # "raise"

\* C28: for calls made one after another with create_it true.  A call that
\* finds the collection or the index there returns True in that very step
\* and leaves the store as it is; a call that finds it absent keeps False,
\* calls the generator or create_index_on_collection, and when it returns,
\* returns that False: the counter of the collection has then advanced, the
\* index is then there.
C28_PresenceObservedBeforeCreation ==
    /\ [][\A p \in Procs :
             (Observes(p, Exist, "list_collection_names")
              /\ Top(p).args.collection \in collections)
             => /\ stack'[p] = <<>>
                /\ outcome'[p].value = Bool(TRUE)
                /\ store' = store]_vars
    /\ [][\A p \in Procs :
             (Observes(p, CheckIndex, "index_information")
              /\ KeyOf(Top(p).args) \in indexes[Top(p).args.collection])
             => /\ stack'[p] = <<>>
                /\ outcome'[p].value = Bool(TRUE)
                /\ store' = store]_vars
    /\ [][\A p \in Procs :
             (Observes(p, Exist, "list_collection_names")
              /\ Top(p).args.collection \notin collections)
             => /\ Len(stack'[p]) = 3
                /\ stack'[p][1].local = Bool(FALSE)
                /\ stack'[p][3].fn = Gen
                /\ stack'[p][3].args.collection = stack[p][1].args.collection]_vars
    /\ [][\A p \in Procs :
             (Observes(p, CheckIndex, "index_information")
              /\ KeyOf(Top(p).args) \notin indexes[Top(p).args.collection])
             => /\ Len(stack'[p]) = 2
                /\ stack'[p][1].local = Bool(FALSE)
                /\ stack'[p][2].fn = CreateIndex
                /\ KeyOf(stack'[p][2].args) = KeyOf(stack[p][1].args)]_vars
    /\ [](\A p \in Procs :
              /\ (Returned(p, Exist) /\ outcome[p].args.create_it
                      /\ Len(handles[p]) > 1)
                   => /\ outcome[p].value = Bool(FALSE)
                      /\ returned[outcome[p].args.collection] # <<>>
                      /\ returned[outcome[p].args.collection]
                             [Len(returned[outcome[p].args.collection])]
                         = Minted(Tally(outcome[p].args.collection), Exist)
              /\ (Returned(p, CheckIndex) /\ outcome[p].args.create_it
                      /\ Len(handles[p]) > 1)
                   => /\ outcome[p].value = Bool(FALSE)
                      /\ KeyOf(outcome[p].args) \in indexes[outcome[p].args.collection])

\* C28 witness: collection_exist("b", create_it=True) found "b" absent and
\* advanced its counter to 1; then collection_exist("a", create_it=True) on
\* the collection "a" that is there returned True through one client, the
\* counter of "a" as it was.
C28_Witness ==
    \E p \in Procs :
        /\ Returned(p, Exist)
        /\ outcome[p].args = [collection |-> "a", create_it |-> TRUE]
        /\ outcome[p].value = Bool(TRUE)
        /\ Len(handles[p]) = 1
        /\ Tally("a") = MaxInit
        /\ returned["b"] = <<Minted(1, Exist)>>

\* C28 witness: check_index_on_collection(create_it=True) found no index,
\* returned False, and the index is there.
C28_WitnessIndex ==
    \E p \in Procs :
        /\ Returned(p, CheckIndex)
        /\ outcome[p].args.create_it
        /\ outcome[p].value = Bool(FALSE)
        /\ KeyOf(outcome[p].args) \in indexes[outcome[p].args.collection]

====
